---- MODULE Spec2Model ----
(***************************************************************************)
(* A model of the school-api controllers: the query shaping of the list    *)
(* endpoints (pagination and the populate include tree), the CRUD handlers *)
(* of the Teacher / Student / Course routers behind authenticateToken, and *)
(* the register / login handlers.                                          *)
(*                                                                         *)
(* Every `await` of a handler is a point where another request may run, so *)
(* a handler is one action per stretch of code between two awaits.         *)
(*                                                                         *)
(* Strings.  A query parameter is a record [present, str]: present=FALSE   *)
(* is JavaScript's undefined, str is a sequence of characters.  For the    *)
(* numeric parameters the characters are those of NumChars.  For populate  *)
(* the alphabet is PopChars, in which each relation name is one symbol (so *)
(* <<"CourseId","x">> is the string "CourseIdx", which is not a relation). *)
(***************************************************************************)
EXTENDS Integers, Sequences, FiniteSets, TLC

VARIABLES
    shape,    \* the query-shaping part of one list handler, run on its own
    table,    \* table[r]: rows of resource r in creation order
    nextId,   \* nextId[r]: the next auto-increment primary key of r
    users,    \* rows of the User table in creation order
    req,      \* req[p]: the request handled in slot p, with the handler's locals
    served,   \* requests accepted so far
    log       \* per e-mail: how many register requests were answered 201

vars == <<shape, table, nextId, users, req, served, log>>

(***************************************************************************)
(* Bounds                                                                  *)
(***************************************************************************)
MaxNumLen == 2      \* longest raw `limit` / `page` string
MaxPopLen == 3      \* longest raw `populate` string, in symbols
MaxRequests == 3    \* requests accepted in one behaviour
MaxSalt == 2        \* distinct bcrypt salts

DefaultLimit == 10
DefaultPage == 1
BcryptCost == 10

NumChars == {"-", "+", "0", "1", "2", "a", " "}
Digits == {"0", "1", "2"}
PopChars == {"CourseId", "StudentId", "TeacherId", "x", " ", ","}

SeqsUpTo(S, n) == UNION {[1..k -> S] : k \in 0..n}

Undefined == [present |-> FALSE, str |-> <<>>]
Str(s) == [present |-> TRUE, str |-> s]

\* JavaScript truthiness of a string-or-undefined value
Truthy(v) == v.present /\ v.str # <<>>

(***************************************************************************)
(* parseInt(x) || dflt                                                     *)
(***************************************************************************)
NaN == [nan |-> TRUE, val |-> 0]
Num(n) == [nan |-> FALSE, val |-> n]

DigitVal(c) == CASE c = "0" -> 0 [] c = "1" -> 1 [] c = "2" -> 2

RECURSIVE SkipSpace(_)
SkipSpace(s) == IF s # <<>> /\ Head(s) = " " THEN SkipSpace(Tail(s)) ELSE s

RECURSIVE DigitPrefix(_)
DigitPrefix(s) ==
    IF s # <<>> /\ Head(s) \in Digits
    THEN <<Head(s)>> \o DigitPrefix(Tail(s))
    ELSE <<>>

RECURSIVE Magnitude(_)
Magnitude(d) ==
    IF d = <<>> THEN 0
    ELSE 10 * Magnitude(SubSeq(d, 1, Len(d) - 1)) + DigitVal(d[Len(d)])

\* parseInt: leading white space is skipped, then an optional sign, then the
\* longest run of digits; what follows is ignored; no digit gives NaN.
\* parseInt(undefined) parses the string "undefined", which gives NaN.
parseInt(x) ==
    IF ~x.present THEN NaN
    ELSE LET t == SkipSpace(x.str)
             signed == t # <<>> /\ Head(t) \in {"-", "+"}
             neg == t # <<>> /\ Head(t) = "-"
             d == DigitPrefix(IF signed THEN Tail(t) ELSE t)
         IN  IF d = <<>> THEN NaN
             ELSE Num(IF neg THEN 0 - Magnitude(d) ELSE Magnitude(d))

\* a || b on a number: NaN and 0 (and -0) are falsy
OrDefaultNaNOnly(n, dflt) == IF n.nan THEN dflt ELSE n.val

OrDefault(n, dflt) == IF n.nan \/ n.val = 0 THEN dflt ELSE n.val

limitOf(q) == OrDefault(parseInt(q.limit), DefaultLimit)
pageOf(q) == OrDefault(parseInt(q.page), DefaultPage)
offsetOf(q) == (pageOf(q) - 1) * limitOf(q)
sortOrderOf(q) == IF q.sort = "desc" THEN "DESC" ELSE "ASC"

(***************************************************************************)
(* populate.split(',').map(r => r.trim())                                  *)
(***************************************************************************)
RECURSIVE split(_)
split(s) ==
    IF \A i \in 1..Len(s) : s[i] # ","
    THEN <<s>>
    ELSE LET i == CHOOSE j \in 1..Len(s) :
                      s[j] = "," /\ \A k \in 1..(j - 1) : s[k] # ","
         IN  <<SubSeq(s, 1, i - 1)>> \o split(SubSeq(s, i + 1, Len(s)))

RECURSIVE trimEnd(_)
trimEnd(s) ==
    IF s # <<>> /\ s[Len(s)] = " " THEN trimEnd(SubSeq(s, 1, Len(s) - 1)) ELSE s

trim(s) == trimEnd(SkipSpace(s))

relationsOf(populate) ==
    LET parts == split(populate.str)
    IN  [i \in 1..Len(parts) |-> trim(parts[i])]

includes(seq, x) == \E i \in 1..Len(seq) : seq[i] = x

CourseId == <<"CourseId">>
StudentId == <<"StudentId">>
TeacherId == <<"TeacherId">>

\* a validRelations object: a function whose domain is its set of keys
EmptyObject == <<>>
HasCourseId(v) == "CourseId" \in DOMAIN v
ObjectValues(v) == IF HasCourseId(v) THEN <<v.CourseId>> ELSE <<>>
CourseNode(inc) == [model |-> "Course", include |-> inc]
Push(v, m) == [CourseId |-> CourseNode(Append(v.CourseId.include, [model |-> m]))]

(***************************************************************************)
(* getAllTeachers: the include list                                        *)
(***************************************************************************)
TeacherIncludeNoEnsure(populate) ==
    IF ~Truthy(populate) THEN <<>>
    ELSE LET relations == relationsOf(populate)
             v1 == IF includes(relations, CourseId)
                   THEN [CourseId |-> CourseNode(<<>>)]
                   ELSE EmptyObject
             v2 == IF includes(relations, StudentId) /\ HasCourseId(v1)
                   THEN Push(v1, "Student")
                   ELSE v1
         IN  ObjectValues(v2)

TeacherInclude(populate) ==
    IF ~Truthy(populate) THEN <<>>
    ELSE LET relations == relationsOf(populate)
             v1 == IF includes(relations, CourseId)
                   THEN [CourseId |-> CourseNode(<<>>)]
                   ELSE EmptyObject
             v2 == IF includes(relations, StudentId)
                   THEN Push(IF ~HasCourseId(v1)
                             THEN [CourseId |-> CourseNode(<<>>)]
                             ELSE v1, "Student")
                   ELSE v1
         IN  ObjectValues(v2)

(***************************************************************************)
(* getAllStudents: the include list                                        *)
(***************************************************************************)
StudentValidRelations == [CourseId |-> CourseNode(<<>>)]

\* one iteration of `for (const rel of relations)`
StudentRelStep(v, rel) ==
    LET v1 == IF rel = CourseId
              THEN [v EXCEPT !.CourseId.include = <<>>]
              ELSE v
    IN  IF rel = TeacherId
        THEN IF HasCourseId(v1)
             THEN Push(v1, "Teacher")
             ELSE [CourseId |-> CourseNode(<<[model |-> "Teacher"]>>)]
        ELSE v1

RECURSIVE StudentRelLoop(_, _)
StudentRelLoop(v, relations) ==
    IF relations = <<>> THEN v
    ELSE StudentRelLoop(StudentRelStep(v, Head(relations)), Tail(relations))

StudentIncludeAlways(populate) ==
    IF ~Truthy(populate) THEN ObjectValues(StudentValidRelations)
    ELSE ObjectValues(StudentRelLoop(StudentValidRelations, relationsOf(populate)))

StudentInclude(populate) ==
    IF ~Truthy(populate) THEN <<>>
    ELSE ObjectValues(StudentRelLoop(StudentValidRelations, relationsOf(populate)))

IncludeOf(handler, populate) ==
    IF handler = "getAllTeachers" THEN TeacherInclude(populate)
    ELSE StudentInclude(populate)

ListHandlers == {"getAllTeachers", "getAllStudents"}

(***************************************************************************)
(* The query-shaping part of a list handler, run on its own                *)
(***************************************************************************)
NoQuery == [limit |-> Undefined, page |-> Undefined, sort |-> "undefined",
            populate |-> Undefined]

Unshaped(h, q) ==
    [phase |-> "query", handler |-> h, query |-> q, limit |-> 0, page |-> 0,
     offset |-> 0, order |-> "", include |-> <<>>]

\* lines 54-92 of getAllStudents, 75-109 of getAllTeachers
ShapeQuery ==
    /\ shape.phase = "query"
    /\ shape' = [shape EXCEPT
                    !.phase = "shaped",
                    !.limit = limitOf(shape.query),
                    !.page = pageOf(shape.query),
                    !.offset = offsetOf(shape.query),
                    !.order = sortOrderOf(shape.query),
                    !.include = IncludeOf(shape.handler, shape.query.populate)]
    /\ UNCHANGED <<table, nextId, users, req, served, log>>

(***************************************************************************)
(* Persistence: a table is the sequence of its rows in creation order      *)
(* (createdAt grows with every insert, so the order by createdAt is the    *)
(* order of the sequence).                                                 *)
(***************************************************************************)
Resources == {"Teacher", "Student", "Course"}
Names == {"Ann", "Bob"}
MaxId == 2
Ids == 1..MaxId
Procs == {1, 2}

Min(a, b) == IF a < b THEN a ELSE b

RECURSIVE Reverse(_)
Reverse(s) == IF s = <<>> THEN <<>> ELSE Append(Reverse(Tail(s)), Head(s))

RowsWithId(rows, id) == SelectSeq(rows, LAMBDA row : row.id = id)
RowsWithoutId(rows, id) == SelectSeq(rows, LAMBDA row : row.id # id)

\* Model.count()
count(rows) == Len(rows)

\* Model.findAll({limit, offset, order: [['createdAt', order]]}), limit and
\* offset not negative
findAll(rows, limit, offset, order) ==
    LET ordered == IF order = "DESC" THEN Reverse(rows) ELSE rows
    IN  SubSeq(ordered, offset + 1, Min(offset + limit, Len(ordered)))

\* Model.findByPk(id): <<>> is null, <<row>> an instance
findByPk(rows, id) == RowsWithId(rows, id)

\* instance.update(body): UPDATE ... WHERE id = instance.id
updateRow(rows, id, body) ==
    [i \in 1..Len(rows) |->
        IF rows[i].id = id THEN [rows[i] EXCEPT !.name = body] ELSE rows[i]]

\* instance.destroy(): DELETE ... WHERE id = instance.id
destroyRow(rows, id) == RowsWithoutId(rows, id)

\* Math.ceil(a / b), b not 0
FloorDiv(a, b) == IF b > 0 THEN a \div b ELSE (0 - a) \div (0 - b)

CeilDiv(a, b) ==
    IF b > 0 THEN 0 - ((0 - a) \div b) ELSE 0 - (a \div (0 - b))

(***************************************************************************)
(* Routers                                                                 *)
(***************************************************************************)
RouteNames == {"POST /", "GET /", "GET /:id", "PUT /:id", "DELETE /:id"}

StudentRoutesOpenDelete ==
    ("POST /" :> <<"authenticateToken", "createStudent">>) @@
    ("GET /" :> <<"authenticateToken", "getAllStudents">>) @@
    ("GET /:id" :> <<"authenticateToken", "getStudentById">>) @@
    ("PUT /:id" :> <<"authenticateToken", "updateStudent">>) @@
    ("DELETE /:id" :> <<"deleteStudent">>)

StudentRoutes ==
    ("POST /" :> <<"authenticateToken", "createStudent">>) @@
    ("GET /" :> <<"authenticateToken", "getAllStudents">>) @@
    ("GET /:id" :> <<"authenticateToken", "getStudentById">>) @@
    ("PUT /:id" :> <<"authenticateToken", "updateStudent">>) @@
    ("DELETE /:id" :> <<"authenticateToken", "deleteStudent">>)

TeacherRoutes ==
    ("POST /" :> <<"authenticateToken", "createTeacher">>) @@
    ("GET /" :> <<"authenticateToken", "getAllTeachers">>) @@
    ("GET /:id" :> <<"authenticateToken", "getTeacherById">>) @@
    ("PUT /:id" :> <<"authenticateToken", "updateTeacher">>) @@
    ("DELETE /:id" :> <<"authenticateToken", "deleteTeacher">>)

CourseRoutes ==
    ("POST /" :> <<"authenticateToken", "createCourse">>) @@
    ("GET /" :> <<"authenticateToken", "getAllCourses">>) @@
    ("GET /:id" :> <<"authenticateToken", "getCourseById">>) @@
    ("PUT /:id" :> <<"authenticateToken", "updateCourse">>) @@
    ("DELETE /:id" :> <<"authenticateToken", "deleteCourse">>)

RouterNames == {"students", "teachers", "courses"}

Routes(router) ==
    CASE router = "students" -> StudentRoutes
      [] router = "teachers" -> TeacherRoutes
      [] router = "courses" -> CourseRoutes

\* the model a controller works on, and which of the five operations it is
ModelOf(handler) ==
    CASE handler \in {"createStudent", "getAllStudents", "getStudentById",
                      "updateStudent", "deleteStudent"} -> "Student"
      [] handler \in {"createTeacher", "getAllTeachers", "getTeacherById",
                      "updateTeacher", "deleteTeacher"} -> "Teacher"
      [] handler \in {"createCourse", "getAllCourses", "getCourseById",
                      "updateCourse", "deleteCourse"} -> "Course"

Creators == {"createStudent", "createTeacher", "createCourse"}
Listers == {"getAllStudents", "getAllTeachers", "getAllCourses"}
Getters == {"getStudentById", "getTeacherById", "getCourseById"}
Updaters == {"updateStudent", "updateTeacher", "updateCourse"}
Deleters == {"deleteStudent", "deleteTeacher", "deleteCourse"}

\* authenticateToken: no bearer token is Unauthorized, a token whose
\* signature or expiry does not verify is Forbidden, otherwise next()
authenticateToken(token) ==
    CASE token = "none" -> 401
      [] token = "bad" -> 403
      [] token = "good" -> 0

\* getAllCourses: the include list of the course listing
CourseInclude(populate) == <<>>

ListInclude(handler, populate) ==
    IF handler = "getAllCourses" THEN CourseInclude(populate)
    ELSE IncludeOf(handler, populate)

(***************************************************************************)
(* Requests                                                                *)
(***************************************************************************)
NoMeta == [totalItems |-> 0, page |-> 0, totalPages |-> 0]
NoRes == [status |-> 0, message |-> "", token |-> <<>>, meta |-> NoMeta,
          data |-> <<>>]

\* res.status(s).json(...)
Status(s, msg) == [NoRes EXCEPT !.status = s, !.message = msg]
Json(s, rows) == [NoRes EXCEPT !.status = s, !.data = rows]

Idle ==
    [pc |-> "idle", router |-> "none", route |-> "none", token |-> "none",
     handler |-> "none", id |-> 0, body |-> "", query |-> NoQuery,
     email |-> "", password |-> "",
     \* locals of the handler
     limit |-> 0, page |-> 0, order |-> "", include |-> <<>>, total |-> 0,
     instance |-> <<>>, hashedPassword |-> <<>>,
     \* the response
     res |-> NoRes,
     \* bookkeeping: what the request did
     accepted |-> FALSE,   \* authenticateToken called next()
     ran |-> FALSE,        \* a controller ran
     looked |-> FALSE,     \* findByPk / findOne was called
     wrote |-> FALSE,      \* update / destroy / create was called
     fetchSaw |-> 0]       \* rows in the table when findAll ran

\* the raw queries a list request is sent with
Q(l, pg, srt, pop) == [limit |-> l, page |-> pg, sort |-> srt, populate |-> pop]
ListQueries ==
    { NoQuery,
      Q(Str(<<"1">>), Undefined, "asc", Str(<<"CourseId">>)),
      Q(Str(<<"2">>), Str(<<"2">>), "desc", Str(<<"TeacherId", ",", "StudentId">>)),
      Q(Str(<<"0">>), Str(<<"a">>), "undefined", Str(<<>>)) }

Tokens == {"none", "bad", "good"}

LowestIdle(p) ==
    /\ req[p].pc = "idle"
    /\ \A q \in Procs : q < p => req[q].pc # "idle"

\* router.<verb>(path, ...handlers): the handlers run in order, each only if
\* the one before called next()
Dispatch(r) ==
    LET chain == Routes(r.router)[r.route]
        guarded == Head(chain) = "authenticateToken"
        verdict == IF guarded THEN authenticateToken(r.token) ELSE 0
    IN  IF verdict # 0
        THEN [r EXCEPT !.pc = "done",
                       !.res = Status(verdict, IF verdict = 401 THEN "Unauthorized"
                                               ELSE "Forbidden")]
        ELSE [r EXCEPT !.pc = "ctl",
                       !.accepted = guarded,
                       !.handler = chain[Len(chain)]]

\* a request arrives at one of the three routers
Arrive(p) ==
    /\ LowestIdle(p)
    /\ served < MaxRequests
    /\ \E router \in RouterNames, route \in RouteNames, token \in Tokens,
          id \in Ids \cup {0}, body \in Names \cup {""}, query \in ListQueries :
          /\ (id # 0) <=> (route \in {"GET /:id", "PUT /:id", "DELETE /:id"})
          /\ (body # "") <=> (route \in {"POST /", "PUT /:id"})
          /\ (query # NoQuery) => (route = "GET /")
          /\ req' = [req EXCEPT ![p] =
                        Dispatch([Idle EXCEPT !.router = router, !.route = route,
                                              !.token = token, !.id = id,
                                              !.body = body, !.query = query])]
    /\ served' = served + 1
    /\ UNCHANGED <<shape, table, nextId, users, log>>

AtController(p, handlers) ==
    /\ req[p].pc = "ctl"
    /\ req[p].handler \in handlers

\* createTeacher / createStudent / createCourse
Create(p) ==
    /\ AtController(p, Creators)
    /\ LET m == ModelOf(req[p].handler)
           row == [id |-> nextId[m], name |-> req[p].body]
       IN  /\ table' = [table EXCEPT ![m] = Append(@, row)]
           /\ nextId' = [nextId EXCEPT ![m] = @ + 1]
           /\ req' = [req EXCEPT ![p].pc = "done", ![p].ran = TRUE,
                                 ![p].wrote = TRUE,
                                 ![p].res = Json(201, <<row>>)]
    /\ UNCHANGED <<shape, users, served, log>>

\* getAll*: from the start of the handler to `await Model.count()`
ListCount(p) ==
    /\ AtController(p, Listers)
    /\ LET m == ModelOf(req[p].handler)
       IN  req' = [req EXCEPT
                      ![p].pc = "fetch", ![p].ran = TRUE,
                      ![p].limit = limitOf(req[p].query),
                      ![p].page = pageOf(req[p].query),
                      ![p].order = sortOrderOf(req[p].query),
                      ![p].include = ListInclude(req[p].handler,
                                                 req[p].query.populate),
                      ![p].total = count(table[m])]
    /\ UNCHANGED <<shape, table, nextId, users, served, log>>

\* the response of a list handler
ListResponse(r, total, rows) ==
    [NoRes EXCEPT !.status = 200,
                  !.meta = [totalItems |-> total, page |-> r.page,
                            totalPages |-> CeilDiv(total, r.limit)],
                  !.data = rows]

\* getAll*: `await Model.findAll(...)` and the response
ListFetchRecount(p) ==
    /\ req[p].pc = "fetch"
    /\ LET m == ModelOf(req[p].handler)
           rows == findAll(table[m], req[p].limit,
                           (req[p].page - 1) * req[p].limit, req[p].order)
       IN  req' = [req EXCEPT
                      ![p].pc = "done",
                      ![p].fetchSaw = Len(table[m]),
                      ![p].res = ListResponse(req[p], count(table[m]), rows)]
    /\ UNCHANGED <<shape, table, nextId, users, served, log>>

ListFetch(p) ==
    /\ req[p].pc = "fetch"
    /\ LET m == ModelOf(req[p].handler)
           rows == findAll(table[m], req[p].limit,
                           (req[p].page - 1) * req[p].limit, req[p].order)
       IN  req' = [req EXCEPT
                      ![p].pc = "done",
                      ![p].fetchSaw = Len(table[m]),
                      ![p].res = ListResponse(req[p], req[p].total, rows)]
    /\ UNCHANGED <<shape, table, nextId, users, served, log>>

\* get*ById
GetById(p) ==
    /\ AtController(p, Getters)
    /\ LET found == findByPk(table[ModelOf(req[p].handler)], req[p].id)
       IN  req' = [req EXCEPT
                      ![p].pc = "done", ![p].ran = TRUE, ![p].looked = TRUE,
                      ![p].instance = found,
                      ![p].res = IF found = <<>> THEN Status(404, "Not found")
                                 ELSE Json(200, found)]
    /\ UNCHANGED <<shape, table, nextId, users, served, log>>

\* update* / delete*: `await Model.findByPk(id)` and the 404 return
FindNo404(p) ==
    /\ AtController(p, Updaters \cup Deleters)
    /\ LET found == findByPk(table[ModelOf(req[p].handler)], req[p].id)
       IN  req' = [req EXCEPT
                      ![p].ran = TRUE, ![p].looked = TRUE,
                      ![p].instance = found,
                      ![p].pc = "write"]
    /\ UNCHANGED <<shape, table, nextId, users, served, log>>

Find(p) ==
    /\ AtController(p, Updaters \cup Deleters)
    /\ LET found == findByPk(table[ModelOf(req[p].handler)], req[p].id)
       IN  req' = [req EXCEPT
                      ![p].ran = TRUE, ![p].looked = TRUE,
                      ![p].instance = found,
                      ![p].pc = IF found = <<>> THEN "done" ELSE "write",
                      ![p].res = IF found = <<>> THEN Status(404, "Not found")
                                 ELSE NoRes]
    /\ UNCHANGED <<shape, table, nextId, users, served, log>>

\* update*: `await instance.update(req.body)` and the response
Update(p) ==
    /\ req[p].pc = "write"
    /\ req[p].handler \in Updaters
    /\ LET m == ModelOf(req[p].handler)
       IN  /\ table' = [table EXCEPT ![m] = updateRow(@, req[p].id, req[p].body)]
           /\ req' = [req EXCEPT
                         ![p].pc = "done", ![p].wrote = TRUE,
                         ![p].res = Json(200, updateRow(req[p].instance,
                                                        req[p].id, req[p].body))]
    /\ UNCHANGED <<shape, nextId, users, served, log>>

\* delete*: `await instance.destroy()` and the response
Destroy(p) ==
    /\ req[p].pc = "write"
    /\ req[p].handler \in Deleters
    /\ LET m == ModelOf(req[p].handler)
       IN  /\ table' = [table EXCEPT ![m] = destroyRow(@, req[p].id)]
           /\ req' = [req EXCEPT ![p].pc = "done", ![p].wrote = TRUE,
                                 ![p].res = Status(200, "Deleted")]
    /\ UNCHANGED <<shape, nextId, users, served, log>>

\* the response has been sent: the slot is free again
Finish(p) ==
    /\ req[p].pc = "done"
    /\ req' = [req EXCEPT ![p] = Idle]
    /\ UNCHANGED <<shape, table, nextId, users, served, log>>

Emails == {"ann@school", "bob@school"}

InitStore ==
    /\ table = [m \in Resources |-> <<>>]
    /\ nextId = [m \in Resources |-> 1]
    /\ users = <<>>
    /\ req = [p \in Procs |-> Idle]
    /\ served = 0
    /\ log = [e \in Emails |-> 0]

Init ==
    /\ shape = Unshaped("getAllTeachers", NoQuery)
    /\ InitStore

Next ==
    \E p \in Procs :
        \/ Arrive(p)
        \/ Create(p)
        \/ ListCount(p)
        \/ ListFetch(p)
        \/ GetById(p)
        \/ Find(p)
        \/ Update(p)
        \/ Destroy(p)
        \/ Finish(p)

Spec == Init /\ [][Next]_vars

(***************************************************************************)
(* register / login                                                        *)
(***************************************************************************)
Passwords == {"pw1", "pw2"}
NoPassword == "undefined"      \* the body carries no password
Salts == 1..MaxSalt

\* bcrypt.hash(password, 10): a salted one-way hash
hash(password, salt) ==
    [cost |-> BcryptCost, salt |-> salt, digest |-> <<password, salt>>]

\* bcrypt.compare(password, hashed)
compare(password, hashed) == hashed.digest = <<password, hashed.salt>>

\* the unique index on User.email: User.create throws on a second row with it
UniqueViolation(rows, email) == \E i \in 1..Len(rows) : rows[i].email = email

\* User.findOne({ where: { email } })
findOne(rows, email) == SelectSeq(rows, LAMBDA row : row.email = email)

\* jwt.sign({ userId, email }, secret, { expiresIn })
sign(user) == <<[userId |-> user.id, email |-> user.email, expiresIn |-> "1h"]>>

\* a request arrives at POST /register or POST /login
ArriveAuth(p) ==
    /\ LowestIdle(p)
    /\ served < MaxRequests
    /\ \E handler \in {"register", "login"}, email \in Emails,
          password \in Passwords \cup {NoPassword}, name \in Names \cup {""} :
          /\ (name # "") <=> (handler = "register")
          /\ req' = [req EXCEPT ![p] =
                        [Idle EXCEPT !.pc = "ctl", !.router = "auth",
                                     !.route = "POST /" \o handler,
                                     !.handler = handler, !.body = name,
                                     !.email = email, !.password = password]]
    /\ served' = served + 1
    /\ UNCHANGED <<shape, table, nextId, users, log>>

\* register: `await bcrypt.hash(password, 10)`
RegisterHash(p) ==
    /\ AtController(p, {"register"})
    /\ IF req[p].password = NoPassword
       THEN req' = [req EXCEPT ![p].pc = "done", ![p].ran = TRUE,
                               ![p].res = Status(500, "Illegal arguments")]
       ELSE \E salt \in Salts :
               req' = [req EXCEPT
                          ![p].pc = "create", ![p].ran = TRUE,
                          ![p].hashedPassword = <<hash(req[p].password, salt)>>]
    /\ UNCHANGED <<shape, table, nextId, users, served, log>>

\* register: `await db.User.create(...)` and the response
RegisterCreateAlways201(p) ==
    /\ req[p].pc = "create"
    /\ IF UniqueViolation(users, req[p].email)
       THEN /\ req' = [req EXCEPT ![p].pc = "done",
                                  ![p].res = Status(201, "User registered")]
            /\ log' = [log EXCEPT ![req[p].email] = @ + 1]
            /\ UNCHANGED users
       ELSE /\ users' = Append(users, [id |-> Len(users) + 1,
                                       name |-> req[p].body,
                                       email |-> req[p].email,
                                       password |-> req[p].hashedPassword[1]])
            /\ req' = [req EXCEPT ![p].pc = "done", ![p].wrote = TRUE,
                                  ![p].res = Status(201, "User registered")]
            /\ log' = [log EXCEPT ![req[p].email] = @ + 1]
    /\ UNCHANGED <<shape, table, nextId, served>>

RegisterCreate(p) ==
    /\ req[p].pc = "create"
    /\ IF UniqueViolation(users, req[p].email)
       THEN /\ req' = [req EXCEPT ![p].pc = "done",
                                  ![p].res = Status(500, "Validation error")]
            /\ UNCHANGED <<users, log>>
       ELSE /\ users' = Append(users, [id |-> Len(users) + 1,
                                       name |-> req[p].body,
                                       email |-> req[p].email,
                                       password |-> req[p].hashedPassword[1]])
            /\ req' = [req EXCEPT ![p].pc = "done", ![p].wrote = TRUE,
                                  ![p].res = Status(201, "User registered")]
            /\ log' = [log EXCEPT ![req[p].email] = @ + 1]
    /\ UNCHANGED <<shape, table, nextId, served>>

\* login: `await db.User.findOne(...)`, and the 401 when there is no user
LoginFind(p) ==
    /\ AtController(p, {"login"})
    /\ LET user == findOne(users, req[p].email)
       IN  req' = [req EXCEPT
                      ![p].ran = TRUE, ![p].looked = TRUE,
                      ![p].instance = user,
                      ![p].pc = IF user = <<>> THEN "done" ELSE "compare",
                      ![p].res = IF user = <<>>
                                 THEN Status(401, "Invalid email or password")
                                 ELSE NoRes]
    /\ UNCHANGED <<shape, table, nextId, users, served, log>>

\* login: `await bcrypt.compare(...)`, the 401 or the token
LoginCompareAny(p) ==
    /\ req[p].pc = "compare"
    /\ LET user == req[p].instance[1]
       IN  req' = [req EXCEPT
                      ![p].pc = "done",
                      ![p].res = IF req[p].password = NoPassword
                                 THEN Status(500, "Illegal arguments")
                                 ELSE [NoRes EXCEPT !.status = 200,
                                                    !.token = sign(user)]]
    /\ UNCHANGED <<shape, table, nextId, users, served, log>>

LoginCompare(p) ==
    /\ req[p].pc = "compare"
    /\ LET user == req[p].instance[1]
       IN  req' = [req EXCEPT
                      ![p].pc = "done",
                      ![p].res = IF req[p].password = NoPassword
                                 THEN Status(500, "Illegal arguments")
                                 ELSE IF ~compare(req[p].password, user.password)
                                 THEN Status(401, "Invalid email or password")
                                 ELSE [NoRes EXCEPT !.status = 200,
                                                    !.token = sign(user)]]
    /\ UNCHANGED <<shape, table, nextId, users, served, log>>

NextAuth ==
    \E p \in Procs :
        \/ ArriveAuth(p)
        \/ RegisterHash(p)
        \/ RegisterCreate(p)
        \/ LoginFind(p)
        \/ LoginCompare(p)
        \/ Finish(p)

SpecAuth == Init /\ [][NextAuth]_vars

(***************************************************************************)
(* The query shaping on its own, over all raw parameters within the bounds *)
(***************************************************************************)
NumInputs == {Undefined} \cup {Str(s) : s \in SeqsUpTo(NumChars, MaxNumLen)}
PopInputs == {Undefined} \cup {Str(s) : s \in SeqsUpTo(PopChars, MaxPopLen)}

InitPaging ==
    /\ \E h \in ListHandlers, l \in NumInputs, pg \in NumInputs :
          shape = Unshaped(h, Q(l, pg, "undefined", Undefined))
    /\ InitStore

InitPopulate ==
    /\ \E h \in ListHandlers, pop \in PopInputs :
          shape = Unshaped(h, Q(Undefined, Undefined, "undefined", pop))
    /\ InitStore

SpecPaging == InitPaging /\ [][ShapeQuery]_vars
SpecPopulate == InitPopulate /\ [][ShapeQuery]_vars

(***************************************************************************)
(* Properties                                                              *)
(***************************************************************************)
Shaped(h) == shape.phase = "shaped" /\ shape.handler = h

HasCourse(include) == \E i \in 1..Len(include) : include[i].model = "Course"

\* C1 (as stated): in getAllStudents, when populate is omitted or empty the
\* include list passed to findAll still holds the Course node.
C1_CourseWithoutPopulate ==
    (Shaped("getAllStudents") /\ ~Truthy(shape.query.populate))
        => HasCourse(shape.include)

\* C1 (amended): in getAllStudents the include list is empty when populate is
\* omitted or empty, and holds exactly one Course node for every other
\* populate value, recognized tokens or not.
C1_CourseOnlyWithPopulate ==
    Shaped("getAllStudents") =>
        IF ~Truthy(shape.query.populate)
        THEN shape.include = <<>>
        ELSE Len(shape.include) = 1 /\ shape.include[1].model = "Course"

C1_Witness ==
    /\ Shaped("getAllStudents")
    /\ shape.query.populate = Undefined
    /\ shape.include = <<>>

TokenSet(populate) ==
    LET relations == relationsOf(populate)
    IN  {relations[i] : i \in 1..Len(relations)}

NoRepeat(seq) == \A i, j \in 1..Len(seq) : seq[i] = seq[j] => i = j

NoDuplicateNode(include) ==
    /\ NoRepeat(include)
    /\ \A i \in 1..Len(include) : NoRepeat(include[i].include)

\* C2: for both list handlers the include list depends only on the set of
\* populate tokens: two populate values with the same tokens, in any order
\* and with any repetition, give equal include lists, and no include node
\* appears twice.
C2_IncludeDependsOnTokenSet ==
    (shape.phase = "shaped" /\ Truthy(shape.query.populate)) =>
        /\ NoDuplicateNode(shape.include)
        /\ \A other \in PopInputs :
              (Truthy(other) /\ TokenSet(other) = TokenSet(shape.query.populate))
                  => IncludeOf(shape.handler, other) = shape.include

\* C3: in getAllTeachers the include list is empty when populate is absent
\* or names neither CourseId nor StudentId; otherwise it is exactly one
\* Course node, which nests exactly one Student include iff StudentId is a
\* token (with or without CourseId); other tokens change nothing.
C3_TeacherIncludeTree ==
    Shaped("getAllTeachers") =>
        LET pop == shape.query.populate
            tokens == IF Truthy(pop) THEN TokenSet(pop) ELSE {}
        IN  IF CourseId \notin tokens /\ StudentId \notin tokens
            THEN shape.include = <<>>
            ELSE /\ Len(shape.include) = 1
                 /\ shape.include[1].model = "Course"
                 /\ shape.include[1].include =
                        IF StudentId \in tokens THEN <<[model |-> "Student"]>>
                        ELSE <<>>

C3_Witness ==
    /\ Shaped("getAllTeachers")
    /\ StudentId \in TokenSet(shape.query.populate)
    /\ CourseId \notin TokenSet(shape.query.populate)
    /\ <<"x">> \in TokenSet(shape.query.populate)
    /\ shape.include = <<CourseNode(<<[model |-> "Student"]>>)>>

\* C4 (as stated): limit is the parsed integer whenever the parameter is
\* numeric, 0 and negative values included, and 10 only when it is absent or
\* not numeric; page likewise with 1; offset is (page-1)*limit.
C4_NumericIsKept ==
    shape.phase = "shaped" =>
        LET l == parseInt(shape.query.limit)
            pg == parseInt(shape.query.page)
        IN  /\ shape.limit = (IF l.nan THEN DefaultLimit ELSE l.val)
            /\ shape.page = (IF pg.nan THEN DefaultPage ELSE pg.val)
            /\ shape.offset = (shape.page - 1) * shape.limit

\* C4 (amended): limit is the parsed integer whenever the parameter is
\* numeric and not zero (negative values included), and 10 when it is absent,
\* not numeric or zero; page likewise with 1; offset is (page-1)*limit.
C4_ZeroFallsBack ==
    shape.phase = "shaped" =>
        LET l == parseInt(shape.query.limit)
            pg == parseInt(shape.query.page)
        IN  /\ shape.limit = (IF l.nan \/ l.val = 0 THEN DefaultLimit ELSE l.val)
            /\ shape.page = (IF pg.nan \/ pg.val = 0 THEN DefaultPage ELSE pg.val)
            /\ shape.offset = (shape.page - 1) * shape.limit

C4_Witness ==
    /\ shape.phase = "shaped"
    /\ shape.query.limit = Str(<<"0">>)
    /\ shape.query.page = Str(<<"-", "2">>)
    /\ shape.limit = 10
    /\ shape.page = -2
    /\ shape.offset = -30

SourceListers == {"getAllTeachers", "getAllStudents"}
SourceById == {"getTeacherById", "updateTeacher", "deleteTeacher",
               "getStudentById", "updateStudent", "deleteStudent"}

ListDone(p) ==
    /\ req[p].pc = "done"
    /\ req[p].handler \in SourceListers
    /\ req[p].res.status = 200

\* C5: a successful list response to a request with limit > 0 and page >= 1
\* carries at most limit items, and its totalPages is ceil(totalItems/limit):
\* the least n with n * limit >= totalItems.
C5_PageSizeAndTotalPages ==
    \A p \in Procs :
        (ListDone(p) /\ req[p].limit > 0 /\ req[p].page >= 1) =>
            LET meta == req[p].res.meta
            IN  /\ Len(req[p].res.data) <= req[p].limit
                /\ meta.totalPages * req[p].limit >= meta.totalItems
                /\ (meta.totalPages - 1) * req[p].limit < meta.totalItems

C5_Witness ==
    \E p \in Procs :
        /\ ListDone(p)
        /\ req[p].limit = 1
        /\ req[p].res.meta.totalItems = 2
        /\ req[p].res.meta.totalPages = 2
        /\ Len(req[p].res.data) = 1

\* C6: a getById, update or delete of a Teacher or Student whose id matches
\* no row when findByPk runs is answered 404 'Not found', calls neither
\* update nor destroy and leaves the tables as they are; one whose id
\* matches a row is never answered 404.
C6_NotFound ==
    [][\A p \in Procs :
          /\ (req[p].pc = "ctl" /\ req'[p].pc # "ctl"
                  /\ req[p].handler \in SourceById) =>
                IF findByPk(table[ModelOf(req[p].handler)], req[p].id) = <<>>
                THEN /\ req'[p].pc = "done"
                     /\ req'[p].res = Status(404, "Not found")
                     /\ ~req'[p].wrote
                     /\ table' = table
                ELSE req'[p].res.status # 404
          /\ (req[p].pc = "write" /\ req'[p].pc # "write"
                  /\ req[p].handler \in SourceById) =>
                req'[p].res.status # 404]_vars

C6_Witness ==
    \E p, q \in Procs :
        /\ req[p].pc = "done" /\ req[p].handler = "deleteStudent"
        /\ req[p].res.status = 404 /\ table["Student"] # <<>>
        /\ req[q].pc = "done" /\ req[q].handler = "updateStudent"
        /\ req[q].res.status = 200

RegisterDone(p) == req[p].pc = "done" /\ req[p].handler = "register"

UsersWith(email) == {i \in 1..Len(users) : users[i].email = email}

\* C7: of the register requests that carry one e-mail, in any interleaving,
\* at most one is answered 201; the others are answered 500 and add no user;
\* no two stored users share an e-mail.
C7_OneRegistrationPerEmail ==
    /\ \A e \in Emails : log[e] <= 1 /\ Cardinality(UsersWith(e)) = log[e]
    /\ \A p \in Procs :
          RegisterDone(p) =>
              /\ req[p].res.status \in {201, 500}
              /\ req[p].wrote <=> (req[p].res.status = 201)

C7_Witness ==
    \E p, q \in Procs :
        /\ RegisterDone(p) /\ RegisterDone(q)
        /\ req[p].email = req[q].email
        /\ req[p].res.status = 201
        /\ req[q].res.status = 500 /\ req[q].password # NoPassword

\* C8: login answers with a token iff a user with the e-mail is stored and
\* the password matches that user's hash; when there is no such user, or the
\* comparison says no, the answer is 401 'Invalid email or password' without
\* a token; login never changes the stored users.
C8_LoginTokenIffMatch ==
    [][\A p \in Procs :
          (req[p].handler = "login" /\ req'[p] # req[p] /\ req[p].pc # "done") =>
              /\ users' = users
              /\ req'[p].pc = "done" =>
                    LET known == \E i \in 1..Len(users) :
                                    users[i].email = req[p].email
                        wrong == \E i \in 1..Len(users) :
                                    /\ users[i].email = req[p].email
                                    /\ req[p].password \in Passwords
                                    /\ users[i].password \notin
                                           {hash(req[p].password, s) : s \in Salts}
                        right == \E i \in 1..Len(users) :
                                    /\ users[i].email = req[p].email
                                    /\ req[p].password \in Passwords
                                    /\ users[i].password \in
                                           {hash(req[p].password, s) : s \in Salts}
                    IN  /\ (req'[p].res.token # <<>>) <=> right
                        /\ right => req'[p].res.token[1].email = req[p].email
                        /\ (~known \/ wrong) =>
                              req'[p].res = Status(401, "Invalid email or password")
      ]_vars

C8_Witness ==
    \E p, q \in Procs :
        /\ req[p].pc = "done" /\ req[p].handler = "login"
        /\ req[p].res.token # <<>>
        /\ req[q].pc = "done" /\ req[q].handler = "login"
        /\ req[q].email = req[p].email
        /\ req[q].res.status = 401

\* C9: on every route of the students, teachers and courses routers a
\* controller runs, and persistence is read or written, only for a request
\* authenticateToken has accepted; a rejected request is answered by the
\* middleware, reaches no controller and writes nothing.
C9_ControllerOnlyAfterAuth ==
    \A p \in Procs :
        req[p].router \in RouterNames =>
            /\ (req[p].pc \in {"ctl", "fetch", "write"} \/ req[p].ran
                    \/ req[p].looked \/ req[p].wrote)
                  => (req[p].token = "good" /\ req[p].accepted)
            /\ (req[p].token # "good") =>
                  /\ req[p].pc = "done"
                  /\ req[p].res.status =
                        (IF req[p].token = "none" THEN 401 ELSE 403)
                  /\ req[p].handler = "none"

C9_Witness ==
    \E p, q \in Procs :
        /\ req[p].pc = "done" /\ req[p].router = "courses"
        /\ req[p].route = "DELETE /:id" /\ req[p].token = "bad"
        /\ req[p].res.status = 403
        /\ req[q].pc = "done" /\ req[q].router = "students"
        /\ req[q].ran /\ req[q].wrote

PageLen(n, limit, offset) ==
    IF offset >= n THEN 0 ELSE Min(limit, n - offset)

\* C10: a list handler counts first and fetches the page in a second
\* persistence step, with nothing holding the table in between: totalItems
\* and totalPages are those of the table when count ran, data is the page of
\* the table when findAll ran.
C10_CountThenFetch ==
    [][\A p \in Procs :
          LET m == ModelOf(req[p].handler)
              meta == req'[p].res.meta
          IN  /\ (req[p].pc = "ctl" /\ req'[p].pc # "ctl"
                      /\ req[p].handler \in SourceListers) =>
                    /\ req'[p].pc = "fetch"
                    /\ req'[p].total = Len(table[m])
              /\ (req[p].pc = "fetch" /\ req'[p].pc # "fetch"
                      /\ req[p].handler \in SourceListers) =>
                    /\ meta.totalItems = req[p].total
                    /\ meta.totalPages * req[p].limit >= req[p].total
                    /\ (meta.totalPages - 1) * req[p].limit < req[p].total
                    /\ Len(req'[p].res.data) =
                           PageLen(Len(table[m]), req[p].limit,
                                   (req[p].page - 1) * req[p].limit)]_vars

C10_Witness ==
    \E p \in Procs :
        /\ ListDone(p)
        /\ req[p].res.meta.totalItems # req[p].fetchSaw
        /\ Len(req[p].res.data) = req[p].fetchSaw

====
